---------------------------- MODULE Spec2Model ----------------------------
(***************************************************************************)
(* The max pooling layer of mlpack (methods/ann/layer/max_pooling.hpp):    *)
(* the pooling rule, the two PoolingOperation overloads, the               *)
(* UnpoolingOperation and the layer's fields, as a state machine whose     *)
(* actions are the layer's public operations.                              *)
(*                                                                         *)
(* Tensors are Armadillo cubes: records [n_rows, n_cols, n_slices, mem]    *)
(* whose mem is a function on 0 .. n_elem - 1 in column-major,             *)
(* slice-after-slice order, exactly the linear addressing of arma::Cube.   *)
(* The batch size (input.n_cols of the matrix handed to Forward) is 1, so  *)
(* a cube has `channels` slices.                                           *)
(***************************************************************************)
EXTENDS Integers, Sequences, FiniteSets, TLC

(***************************************************************************)
(* Bounds of the model.                                                    *)
(***************************************************************************)
\* kernel and stride values range over 0 .. MaxKernel
MaxKernel == 2
\* rows and columns of a declared input range over 1 .. MaxDim
MaxDim == 3
\* channels of a declared input range over 1 .. MaxChannels
MaxChannels == 2
\* a declared input holds at most MaxElems elements
MaxElems == 4
\* input elements range over 0 .. MaxVal
MaxVal == 1
\* upstream gradient elements range over 0 .. MaxGrad
MaxGrad == 1
\* the container declares an input shape at most MaxDeclarations times
MaxDeclarations == 1
\* the caller assigns a configuration field at most MaxMutations times
MaxMutations == 1

Values == 0 .. MaxVal
GradValues == 0 .. MaxGrad
Sizes == 0 .. MaxKernel
Shapes ==
  { sh \in (1 .. MaxDim) \X (1 .. MaxDim) \X (1 .. MaxChannels) :
      sh[1] * sh[2] * sh[3] <= MaxElems }

VARIABLES
  kernelWidth,      \* size_t kernelWidth
  kernelHeight,     \* size_t kernelHeight
  strideWidth,      \* size_t strideWidth
  strideHeight,     \* size_t strideHeight
  floor,            \* bool floor
  channels,         \* size_t channels
  offset,           \* size_t offset
  poolingIndices,   \* arma::Cube<size_t> poolingIndices
  inputDimensions,  \* Layer::inputDimensions, << >> while undeclared
  outputDimensions, \* Layer::outputDimensions, << >> while not computed
  ready,            \* the index map is the one of a completed Forward on the
                    \* current configuration and shape (spec 4.5, state Ready)
  op,               \* the operation called last
  result,           \* how that call ended
  input,            \* the cube Forward was called on
  output,           \* the cube Forward filled
  gy,               \* the upstream gradient Backward was called on
  g,                \* the gradient Backward filled
  declarations,     \* how many times an input shape was declared
  mutations         \* how many times a configuration field was assigned

config == <<kernelWidth, kernelHeight, strideWidth, strideHeight, floor>>
derived == <<channels, offset, inputDimensions, outputDimensions>>
frame == <<op, result, input, output, gy, g>>
vars == <<config, derived, poolingIndices, ready, frame, declarations,
         mutations>>

(***************************************************************************)
(* Cubes.                                                                  *)
(***************************************************************************)
Cube(nr, nc, ns, mem) ==
  [n_rows |-> nr, n_cols |-> nc, n_slices |-> ns, mem |-> mem]

n_elem(cube) == cube.n_rows * cube.n_cols * cube.n_slices

NoCube == Cube(0, 0, 0, << >>)

\* cube(r, c, s): the element at row r, column c of slice s
At(cube, r, c, s) ==
  cube.mem[r + cube.n_rows * c + cube.n_rows * cube.n_cols * s]

\* every cube of the given shape over the given element values
CubesOf(nr, nc, ns, vals) ==
  { Cube(nr, nc, ns, m) : m \in [0 .. (nr * nc * ns - 1) -> vals] }


(***************************************************************************)
(* MaxPoolingRule.  A window is a submatrix view: [n_rows, n_cols, mem],   *)
(* mem its elements in column-major order (arma::vectorise).               *)
(***************************************************************************)
RECURSIVE MaxUpTo(_, _)
\* arma::max over the elements 0 .. n of a vector
MaxUpTo(mem, n) ==
  IF n = 0 THEN mem[0]
  ELSE LET m == MaxUpTo(mem, n - 1) IN IF mem[n] > m THEN mem[n] ELSE m

RECURSIVE FindFirst(_, _, _)
\* arma::find(X == v, 1): the linear index of the first element equal to v
FindFirst(mem, v, p) ==
  IF mem[p] = v THEN p ELSE FindFirst(mem, v, p + 1)

Pooling(window) ==
  MaxUpTo(window.mem, window.n_rows * window.n_cols - 1)

PoolingWithIndex(window) ==
  LET maxVal == MaxUpTo(window.mem, window.n_rows * window.n_cols - 1)
      index == FindFirst(window.mem, maxVal, 0)
  IN  <<index, maxVal>>

(***************************************************************************)
(* Mat::submat(in_row1, in_col1, in_row2, in_col2) on slice s.  Armadillo  *)
(* accepts the bounds when in_row1 <= in_row2, in_col1 <= in_col2,         *)
(* in_row2 < n_rows and in_col2 < n_cols.  The bounds are size_t: a last   *)
(* row computed below zero wraps to a number above every n_rows, so a      *)
(* negative last row or column here is refused like the wrapped one.       *)
(***************************************************************************)
SubmatOk(cube, r1, c1, r2, c2) ==
  /\ r1 <= r2
  /\ c1 <= c2
  /\ r2 >= 0 /\ r2 < cube.n_rows
  /\ c2 >= 0 /\ c2 < cube.n_cols

Submat(cube, s, r1, c1, r2, c2) ==
  LET wr == r2 - r1 + 1
      wc == c2 - c1 + 1
  IN  [n_rows |-> wr, n_cols |-> wc,
       mem |-> [p \in 0 .. (wr * wc - 1) |->
                  At(cube, r1 + (p % wr), c1 + (p \div wr), s)]]

(***************************************************************************)
(* The loops of PoolingOperation: rowidx and colidx start at 0 and grow by *)
(* the stride with every output row and column.                            *)
(***************************************************************************)
\* Advance with the loop variable grown by 1, not by the stride
AdvanceUnit(n, stride) == n

RECURSIVE Advance(_, _)
\* the loop variable after n increments of `stride`
Advance(n, stride) ==
  IF n = 0 THEN 0 ELSE Advance(n - 1, stride) + stride

\* the last row and column handed to submat
LastRow(rowidx) == rowidx + kernelWidth - 1 - offset
LastCol(colidx) == colidx + kernelHeight - 1 - offset

\* UnmappedPoolingIndex with the pooling index split by the window's number
\* of columns, not of rows
UnmappedPoolingIndexByHeight(in, rowidx, colidx, s, poolIndex) ==
  LET poolingCol == poolIndex \div (kernelHeight - offset)
      poolingRow == poolIndex % (kernelHeight - offset)
  IN  (rowidx + poolingRow) + in.n_rows * (colidx + poolingCol)
        + in.n_rows * in.n_cols * s

\* the pooling index of the submatrix mapped back to the linearized input
UnmappedPoolingIndex(in, rowidx, colidx, s, poolIndex) ==
  LET poolingCol == poolIndex \div (kernelWidth - offset)
      poolingRow == poolIndex % (kernelWidth - offset)
  IN  (rowidx + poolingRow) + in.n_rows * (colidx + poolingCol)
        + in.n_rows * in.n_cols * s

\* submat accepts the window of output cell (i, j)
CellOk(in, i, j) ==
  LET rowidx == Advance(i, strideWidth)
      colidx == Advance(j, strideHeight)
  IN  SubmatOk(in, rowidx, colidx, LastRow(rowidx), LastCol(colidx))

\* one iteration of the innermost loop, for output cell (i, j, s)
PoolCell(in, i, j, s, withIndex) ==
  LET rowidx == Advance(i, strideWidth)
      colidx == Advance(j, strideHeight)
  IN  IF CellOk(in, i, j)
      THEN LET w == Submat(in, s, rowidx, colidx, LastRow(rowidx),
                           LastCol(colidx))
           IN  IF withIndex
               THEN LET poolResult == PoolingWithIndex(w) IN
                    [ok |-> TRUE,
                     index |-> UnmappedPoolingIndex(in, rowidx, colidx, s,
                                                    poolResult[1]),
                     value |-> poolResult[2]]
               ELSE [ok |-> TRUE, index |-> 0, value |-> Pooling(w)]
      ELSE [ok |-> FALSE, index |-> 0, value |-> 0]

\* the iterations in loop order: slices outermost, then columns, then rows,
\* which is the order of the output's linear index
PoolCells(in, outRows, outCols, withIndex) ==
  [n \in 0 .. (outRows * outCols * in.n_slices - 1) |->
     PoolCell(in, n % outRows, (n \div outRows) % outCols,
              n \div (outRows * outCols), withIndex)]

\* the first iteration whose submat is refused, the cell count when none is
FirstFault(cells) ==
  LET N == Cardinality(DOMAIN cells)
      bad == { n \in DOMAIN cells : ~cells[n].ok }
  IN  IF bad = {} THEN N ELSE CHOOSE n \in bad : \A m \in bad : n <= m

(***************************************************************************)
(* How a call ends.  A refused submat or element access throws             *)
(* std::logic_error in a build with Armadillo's checks and is undefined    *)
(* behaviour in a build without them (ARMA_NO_DEBUG): both are outcomes.   *)
(* Memory the call did not write, or read outside a buffer, holds a value  *)
(* the call does not control (junk).                                       *)
(***************************************************************************)
Faults == {"logic_error", "undefined"}

\* PoolingOperation with the loops ending one cell early: the last cell of
\* the output and of the pooling indices keeps what it held
PoolingOperationSkipLast(in, outRows, outCols, how, junkV, junkI) ==
  LET cells == PoolCells(in, outRows, outCols, TRUE)
      N == outRows * outCols * in.n_slices
      first == FirstFault(cells)
      written(n) ==
        /\ n < N - 1
        /\ IF how = "logic_error" THEN n < first ELSE cells[n].ok
  IN  [completed |-> first = N,
       output |-> Cube(outRows, outCols, in.n_slices,
                   [n \in 0 .. (N - 1) |->
                      IF written(n) THEN cells[n].value ELSE junkV]),
       poolingIndices |-> Cube(outRows, outCols, in.n_slices,
                   [n \in 0 .. (N - 1) |->
                      IF written(n) THEN cells[n].index ELSE junkI])]

\* PoolingOperation(input, output, poolingIndices)
PoolingOperation(in, outRows, outCols, how, junkV, junkI) ==
  LET cells == PoolCells(in, outRows, outCols, TRUE)
      N == outRows * outCols * in.n_slices
      first == FirstFault(cells)
      written(n) == IF how = "logic_error" THEN n < first ELSE cells[n].ok
  IN  [completed |-> first = N,
       output |-> Cube(outRows, outCols, in.n_slices,
                   [n \in 0 .. (N - 1) |->
                      IF written(n) THEN cells[n].value ELSE junkV]),
       poolingIndices |-> Cube(outRows, outCols, in.n_slices,
                   [n \in 0 .. (N - 1) |->
                      IF written(n) THEN cells[n].index ELSE junkI])]

\* PoolingOperation(input, output)
PoolingOperationValues(in, outRows, outCols, how, junkV) ==
  LET cells == PoolCells(in, outRows, outCols, FALSE)
      N == outRows * outCols * in.n_slices
      first == FirstFault(cells)
      written(n) == IF how = "logic_error" THEN n < first ELSE cells[n].ok
  IN  [completed |-> first = N,
       output |-> Cube(outRows, outCols, in.n_slices,
                   [n \in 0 .. (N - 1) |->
                      IF written(n) THEN cells[n].value ELSE junkV])]

(***************************************************************************)
(* UnpoolingOperation(error, output, poolingIndices): output.zeros(), then *)
(* output(poolingIndices(i)) += error(i) for every i below                 *)
(* poolingIndices.n_elem.                                                  *)
(***************************************************************************)
\* Zeros without the call of zeros(): the buffer keeps what it held
ZerosSkipped(cube) == cube

Zeros(cube) ==
  [cube EXCEPT !.mem = [p \in DOMAIN cube.mem |-> 0]]

\* iteration i may run: error(i) and output(poolingIndices(i)) exist
UnpoolOk(error, out, indices, i) ==
  /\ i < n_elem(error)
  /\ indices.mem[i] < n_elem(out)

\* UnpoolStep with = in place of +=
UnpoolStepAssign(error, mem, indices, i, junk) ==
  LET e == IF i < n_elem(error) THEN error.mem[i] ELSE junk
      p == indices.mem[i]
  IN  IF p \in DOMAIN mem THEN [mem EXCEPT ![p] = e] ELSE mem

\* the body of the loop for iteration i
UnpoolStep(error, mem, indices, i, junk) ==
  LET e == IF i < n_elem(error) THEN error.mem[i] ELSE junk
      p == indices.mem[i]
  IN  IF p \in DOMAIN mem THEN [mem EXCEPT ![p] = mem[p] + e] ELSE mem

RECURSIVE UnpoolLoop(_, _, _, _, _, _)
\* iterations i .. limit - 1 of the loop
UnpoolLoop(error, mem, indices, i, limit, junk) ==
  IF i >= limit THEN mem
  ELSE UnpoolLoop(error, UnpoolStep(error, mem, indices, i, junk),
                  indices, i + 1, limit, junk)

UnpoolingOperation(error, out, indices, how, junk) ==
  LET N == n_elem(indices)
      bad == { i \in 0 .. (N - 1) : ~UnpoolOk(error, out, indices, i) }
      first == IF bad = {} THEN N
               ELSE CHOOSE i \in bad : \A m \in bad : i <= m
      limit == IF how = "logic_error" THEN first ELSE N
  IN  [completed |-> first = N,
       output |-> [out EXCEPT !.mem =
                     UnpoolLoop(error, Zeros(out).mem, indices, 0, limit,
                                junk)]]

(***************************************************************************)
(* The dimension calculator (spec 4.2), per spatial axis.  A kernel or     *)
(* stride of 0, or a result below 1, is a ConfigurationError, written 0.   *)
(***************************************************************************)
\* ComputeOutputSize with a result below 1 raised to 1, not refused
ComputeOutputSizeClamped(inputSize, kernel, stride, floorMode) ==
  IF kernel = 0 \/ stride = 0 THEN 0
  ELSE LET d == inputSize - kernel
           size == IF floorMode THEN (d \div stride) + 1
                   ELSE (0 - ((0 - d) \div stride)) + 1
       IN  IF size < 1 THEN 1 ELSE size

ComputeOutputSize(inputSize, kernel, stride, floorMode) ==
  IF kernel = 0 \/ stride = 0 THEN 0
  ELSE LET d == inputSize - kernel
           size == IF floorMode THEN (d \div stride) + 1
                   ELSE (0 - ((0 - d) \div stride)) + 1
       IN  IF size < 1 THEN 0 ELSE size

\* the window offset of the rounding mode (spec 9: the full window under
\* floor mode, the window reduced by a fixed offset under ceil mode)
OffsetOf(floorMode) == IF floorMode THEN 0 ELSE 1

(***************************************************************************)
(* The layer.                                                              *)
(***************************************************************************)
\* MaxPoolingType(kernelWidth, kernelHeight, strideWidth, strideHeight, floor)
Init ==
  /\ kernelWidth \in Sizes
  /\ kernelHeight \in Sizes
  /\ strideWidth \in Sizes
  /\ strideHeight \in Sizes
  /\ floor \in BOOLEAN
  /\ channels = 0
  /\ offset = 0
  /\ poolingIndices = NoCube
  /\ inputDimensions = << >>
  /\ outputDimensions = << >>
  /\ ready = FALSE
  /\ op = "MaxPoolingType"
  /\ result = "ok"
  /\ input = NoCube
  /\ output = NoCube
  /\ gy = NoCube
  /\ g = NoCube
  /\ declarations = 0
  /\ mutations = 0

\* the container declares the input shape and calls ComputeOutputDimensions()
ComputeOutputDimensions ==
  /\ declarations < MaxDeclarations
  /\ declarations' = declarations + 1
  /\ \E sh \in Shapes :
    LET w == ComputeOutputSize(sh[1], kernelWidth, strideWidth, floor)
        h == ComputeOutputSize(sh[2], kernelHeight, strideHeight, floor)
    IN  /\ inputDimensions' = sh
        /\ IF w = 0 \/ h = 0
           THEN /\ result' = "ConfigurationError"
                /\ outputDimensions' = << >>
                /\ UNCHANGED <<channels, offset>>
           ELSE /\ result' = "ok"
                /\ outputDimensions' = <<w, h, sh[3]>>
                /\ offset' = OffsetOf(floor)
                /\ channels' = sh[3]
        /\ ready' = FALSE
        /\ op' = "ComputeOutputDimensions"
        /\ input' = NoCube /\ output' = NoCube /\ gy' = NoCube /\ g' = NoCube
        /\ UNCHANGED <<config, poolingIndices>>

Configured == outputDimensions # << >>

\* the junk a cell of the pooling indices holds for the junk value v of the
\* output: the index of an input element, or of none
JunkIndex(v) ==
  IF v = 0 THEN 0 ELSE inputDimensions[1] * inputDimensions[2] * channels

\* the ways a call can end: one way when every access is accepted, else
\* the exception, or undefined behaviour with every junk
Outcomes(completed, junks) ==
  IF completed
  THEN {[how |-> "ok", junk |-> 0]}
  ELSE [how : Faults, junk : junks]

\* every submat of PoolingOperation on `in` is accepted
WindowsOk(in) ==
  \A i \in 0 .. (outputDimensions[1] - 1), j \in 0 .. (outputDimensions[2] - 1) :
    CellOk(in, i, j)

\* Forward(input, output) while training: the pooling indices are stored
ForwardTraining ==
  /\ Configured
  /\ \E in \in CubesOf(inputDimensions[1], inputDimensions[2], channels,
                       Values) :
     \E o \in Outcomes(WindowsOk(in), Values) :
       LET r == PoolingOperation(in, outputDimensions[1],
                                 outputDimensions[2], o.how, o.junk,
                                 JunkIndex(o.junk))
       IN  /\ input' = in
           /\ output' = r.output
           /\ poolingIndices' = r.poolingIndices
           /\ result' = o.how
           /\ ready' = r.completed
  /\ op' = "ForwardTraining"
  /\ gy' = NoCube /\ g' = NoCube
  /\ UNCHANGED <<config, derived, declarations>>

\* Forward(input, output) while predicting: only the values are computed
ForwardInference ==
  /\ Configured
  /\ \E in \in CubesOf(inputDimensions[1], inputDimensions[2], channels,
                       Values) :
     \E o \in Outcomes(WindowsOk(in), Values) :
       LET r == PoolingOperationValues(in, outputDimensions[1],
                                       outputDimensions[2], o.how, o.junk)
       IN  /\ input' = in
           /\ output' = r.output
           /\ result' = o.how
  /\ op' = "ForwardInference"
  /\ gy' = NoCube /\ g' = NoCube
  /\ UNCHANGED <<config, derived, poolingIndices, ready, declarations>>

\* the element counts of the upstream gradients a caller hands to Backward
GradLens ==
  LET N == outputDimensions[1] * outputDimensions[2] * channels
  IN  {N - 1, N, N + 1}

\* every iteration of UnpoolingOperation on `err` may run
UnpoolAllOk(err) ==
  \A i \in 0 .. (n_elem(poolingIndices) - 1) :
    /\ i < n_elem(err)
    /\ poolingIndices.mem[i]
         < inputDimensions[1] * inputDimensions[2] * channels

\* Backward(input, gy, g): g is shaped like the input and arrives holding
\* what the caller's buffer held, which is not zero
Backward ==
  /\ Configured
  /\ \E len \in GradLens :
     \E err \in CubesOf(len, 1, 1, GradValues) :
     \E o \in Outcomes(UnpoolAllOk(err), GradValues) :
       LET gTemp == Cube(inputDimensions[1], inputDimensions[2], channels,
                         [p \in 0 .. (inputDimensions[1] * inputDimensions[2]
                                        * channels - 1) |-> MaxGrad])
           r == UnpoolingOperation(err, gTemp, poolingIndices, o.how, o.junk)
       IN  /\ gy' = err
           /\ g' = r.output
           /\ result' = o.how
  /\ op' = "Backward"
  /\ input' = NoCube /\ output' = NoCube
  /\ UNCHANGED <<config, derived, poolingIndices, ready, declarations>>

(***************************************************************************)
(* The mutators: KernelWidth(), KernelHeight(), StrideWidth(),             *)
(* StrideHeight() and Floor() return a reference to the field, which the   *)
(* caller assigns.  Nothing else of the layer changes.                     *)
(***************************************************************************)
Mutated(name) ==
  /\ mutations < MaxMutations
  /\ mutations' = mutations + 1
  /\ op' = name
  /\ result' = "ok"
  /\ ready' = FALSE
  /\ input' = NoCube /\ output' = NoCube /\ gy' = NoCube /\ g' = NoCube
  /\ UNCHANGED <<derived, poolingIndices, declarations>>

KernelWidth ==
  /\ \E v \in Sizes : kernelWidth' = v
  /\ Mutated("KernelWidth")
  /\ UNCHANGED <<kernelHeight, strideWidth, strideHeight, floor>>

KernelHeight ==
  /\ \E v \in Sizes : kernelHeight' = v
  /\ Mutated("KernelHeight")
  /\ UNCHANGED <<kernelWidth, strideWidth, strideHeight, floor>>

StrideWidth ==
  /\ \E v \in Sizes : strideWidth' = v
  /\ Mutated("StrideWidth")
  /\ UNCHANGED <<kernelWidth, kernelHeight, strideHeight, floor>>

StrideHeight ==
  /\ \E v \in Sizes : strideHeight' = v
  /\ Mutated("StrideHeight")
  /\ UNCHANGED <<kernelWidth, kernelHeight, strideWidth, floor>>

Floor ==
  /\ \E v \in BOOLEAN : floor' = v
  /\ Mutated("Floor")
  /\ UNCHANGED <<kernelWidth, kernelHeight, strideWidth, strideHeight>>

(***************************************************************************)
(* The specifications.  Spec is a layer in training: shape declaration,    *)
(* Forward with the pooling indices, Backward.  SpecForward is the forward *)
(* pass in both modes.  SpecMutators is a layer built with the default      *)
(* strides and rounding mode and configured through the mutators.          *)
(***************************************************************************)
Next ==
  \/ (ComputeOutputDimensions /\ UNCHANGED mutations)
  \/ (ForwardTraining /\ UNCHANGED mutations)
  \/ (Backward /\ UNCHANGED mutations)

Spec == Init /\ [][Next]_vars

NextForward ==
  \/ (ComputeOutputDimensions /\ UNCHANGED mutations)
  \/ (ForwardTraining /\ UNCHANGED mutations)
  \/ (ForwardInference /\ UNCHANGED mutations)

SpecForward == Init /\ [][NextForward]_vars

NextMutators ==
  \/ (ComputeOutputDimensions /\ UNCHANGED mutations)
  \/ (ForwardTraining /\ UNCHANGED mutations)
  \/ KernelWidth
  \/ KernelHeight
  \/ StrideWidth
  \/ StrideHeight
  \/ Floor

\* MaxPoolingType(kernelWidth, kernelHeight): the strides and the rounding
\* mode take the constructor's defaults
InitDefaults ==
  /\ Init
  /\ strideWidth = 1
  /\ strideHeight = 1
  /\ floor = TRUE

SpecMutators == InitDefaults /\ [][NextMutators]_vars

(***************************************************************************)
(* Vocabulary of the claims, stated on the tensors themselves and not      *)
(* through the operators above.                                            *)
(***************************************************************************)
ValidConfiguration ==
  /\ kernelWidth >= 1 /\ kernelHeight >= 1
  /\ strideWidth >= 1 /\ strideHeight >= 1

\* output cell n is cell (CellRow(n), CellCol(n)) of slice CellSlice(n)
CellRow(n) == n % outputDimensions[1]
CellCol(n) == (n \div outputDimensions[1]) % outputDimensions[2]
CellSlice(n) == n \div (outputDimensions[1] * outputDimensions[2])

\* the kernel's rectangle anchored at cell n's top-left corner
KernelRows(n) ==
  (CellRow(n) * strideWidth) .. (CellRow(n) * strideWidth + kernelWidth - 1)
KernelCols(n) ==
  (CellCol(n) * strideHeight) .. (CellCol(n) * strideHeight + kernelHeight - 1)

\* the rows and columns Forward hands to submat for cell n
ReadRows(n) ==
  (CellRow(n) * strideWidth)
    .. (CellRow(n) * strideWidth + kernelWidth - 1 - offset)
ReadCols(n) ==
  (CellCol(n) * strideHeight)
    .. (CellCol(n) * strideHeight + kernelHeight - 1 - offset)

SetMax(S) == CHOOSE m \in S : \A x \in S : x <= m

RECURSIVE SumOver(_, _)
\* the sum of mem[i] over the i in S
SumOver(S, mem) ==
  IF S = {} THEN 0
  ELSE LET x == CHOOSE x \in S : TRUE
       IN  mem[x] + SumOver(S \ {x}, mem)

\* the flat, channel-major position of row r, column c of slice s of the input
Flat(r, c, s) ==
  r + inputDimensions[1] * c + inputDimensions[1] * inputDimensions[2] * s

\* the layer is in floor mode with stride equal to kernel, dividing the input
NonOverlap ==
  /\ floor
  /\ ValidConfiguration
  /\ strideWidth = kernelWidth /\ strideHeight = kernelHeight
  /\ inputDimensions[1] % kernelWidth = 0
  /\ inputDimensions[2] % kernelHeight = 0

\* Backward ran on the index map of a completed Forward with a gradient
\* shaped like the output
BackwardOnForward ==
  /\ op = "Backward"
  /\ ready
  /\ n_elem(gy) = n_elem(poolingIndices)

(***************************************************************************)
(* C1.  After Forward with index tracking, for every valid configuration   *)
(* and in both rounding modes, Forward has completed and the input element *)
(* at the position stored for an output cell equals that cell.             *)
(***************************************************************************)
C1_IndexedInputEqualsOutput ==
  (op = "ForwardTraining" /\ ValidConfiguration) =>
    /\ result = "ok"
    /\ \A n \in DOMAIN output.mem :
         /\ poolingIndices.mem[n] \in DOMAIN input.mem
         /\ input.mem[poolingIndices.mem[n]] = output.mem[n]

(***************************************************************************)
(* C2.  In floor mode both PoolingOperation overloads complete and store,  *)
(* for every output cell (i, j, s), the maximum of the full kernelWidth x  *)
(* kernelHeight window of slice s anchored at row i * strideWidth, column  *)
(* j * strideHeight, found by scanning the window's elements.              *)
(***************************************************************************)
C2_FloorWindowMax ==
  (op \in {"ForwardTraining", "ForwardInference"} /\ floor) =>
    /\ result = "ok"
    /\ outputDimensions[1]
         = ((inputDimensions[1] - kernelWidth) \div strideWidth) + 1
    /\ outputDimensions[2]
         = ((inputDimensions[2] - kernelHeight) \div strideHeight) + 1
    /\ DOMAIN output.mem
         = 0 .. (outputDimensions[1] * outputDimensions[2] * channels - 1)
    /\ \A n \in DOMAIN output.mem :
         output.mem[n]
           = SetMax({ input.mem[Flat(r, c, CellSlice(n))] :
                        r \in KernelRows(n), c \in KernelCols(n) })

\* the second overload pooled two windows of several elements to different
\* maxima, the first of them not at the window's first element
C2_Witness ==
  /\ op = "ForwardInference"
  /\ result = "ok"
  /\ floor
  /\ kernelWidth * kernelHeight >= 2
  /\ n_elem(output) >= 2
  /\ output.mem[0] # output.mem[1]
  /\ input.mem[0] # output.mem[0]

(***************************************************************************)
(* C3.  After a completed Forward with index tracking, the index stored    *)
(* for a cell is (rowidx + localRow) + inputRows * (colidx + localCol)     *)
(* + inputRows * inputCols * s, where (localRow, localCol) is the first    *)
(* position, scanning the window down each column and then across the      *)
(* columns, that holds the window's maximum.                               *)
(***************************************************************************)
C3_FirstOccurrence ==
  (op = "ForwardTraining" /\ result = "ok") =>
    \A n \in DOMAIN poolingIndices.mem :
      LET s == CellSlice(n)
          m == SetMax({ input.mem[Flat(r, c, s)] :
                          r \in ReadRows(n), c \in ReadCols(n) })
          occ == { x \in ReadRows(n) \X ReadCols(n) :
                     input.mem[Flat(x[1], x[2], s)] = m }
          first == CHOOSE x \in occ :
                     \A y \in occ :
                       \/ x[2] < y[2]
                       \/ (x[2] = y[2] /\ x[1] <= y[1])
      IN  /\ output.mem[n] = m
          /\ poolingIndices.mem[n] = Flat(first[1], first[2], s)

\* a 2 x 2 window holds its maximum at row 1, column 0 and at row 0,
\* column 1, not at its first element: the column-major scan meets row 1,
\* column 0 first
C3_Witness ==
  /\ op = "ForwardTraining"
  /\ result = "ok"
  /\ kernelWidth - offset = 2 /\ kernelHeight - offset = 2
  /\ input.mem[Flat(0, 0, 0)] < input.mem[Flat(1, 0, 0)]
  /\ input.mem[Flat(1, 0, 0)] = input.mem[Flat(0, 1, 0)]
  /\ input.mem[Flat(1, 1, 0)] <= input.mem[Flat(1, 0, 0)]
  /\ poolingIndices.mem[0] = Flat(1, 0, 0)

(***************************************************************************)
(* C4.  Backward on the index map of the preceding Forward, with an        *)
(* upstream gradient shaped like the output, completes and produces a      *)
(* gradient whose elements sum to the sum of the upstream gradient's.      *)
(***************************************************************************)
C4_GradientConserved ==
  BackwardOnForward =>
    /\ result = "ok"
    /\ SumOver(DOMAIN g.mem, g.mem) = SumOver(DOMAIN gy.mem, gy.mem)

\* two output cells of overlapping windows point at one input location and
\* both carry gradient, which the location holds summed
C4_Witness ==
  /\ BackwardOnForward
  /\ result = "ok"
  /\ \E i, k \in DOMAIN gy.mem :
       /\ i # k
       /\ poolingIndices.mem[i] = poolingIndices.mem[k]
       /\ gy.mem[i] # 0 /\ gy.mem[k] # 0
       /\ g.mem[poolingIndices.mem[i]] = gy.mem[i] + gy.mem[k]

(***************************************************************************)
(* C5.  In the non-overlap case no two entries of the index map are equal, *)
(* and after Backward the number of input locations with nonzero gradient  *)
(* equals the number of output cells.                                      *)
(***************************************************************************)
C5_NonzeroPerOutputCell ==
  (BackwardOnForward /\ NonOverlap) =>
    /\ \A i, k \in DOMAIN poolingIndices.mem :
         poolingIndices.mem[i] = poolingIndices.mem[k] => i = k
    /\ Cardinality({ p \in DOMAIN g.mem : g.mem[p] # 0 })
         = n_elem(poolingIndices)

(***************************************************************************)
(* C5, amended.  In the non-overlap case no two entries of the index map   *)
(* are equal, and after Backward the number of input locations with        *)
(* nonzero gradient equals the number of output cells whose upstream       *)
(* gradient is nonzero, each such location holding that cell's gradient.   *)
(***************************************************************************)
C5_NonzeroPerNonzeroCell ==
  (BackwardOnForward /\ NonOverlap) =>
    /\ \A i, k \in DOMAIN poolingIndices.mem :
         poolingIndices.mem[i] = poolingIndices.mem[k] => i = k
    /\ Cardinality({ p \in DOMAIN g.mem : g.mem[p] # 0 })
         = Cardinality({ i \in DOMAIN gy.mem : gy.mem[i] # 0 })
    /\ \A i \in DOMAIN gy.mem : g.mem[poolingIndices.mem[i]] = gy.mem[i]

\* several windows of several elements, every upstream gradient nonzero
C5_Witness ==
  /\ BackwardOnForward
  /\ NonOverlap
  /\ result = "ok"
  /\ kernelWidth * kernelHeight >= 2
  /\ n_elem(gy) >= 2
  /\ \A i \in DOMAIN gy.mem : gy.mem[i] # 0
  /\ Cardinality({ p \in DOMAIN g.mem : g.mem[p] # 0 }) = n_elem(gy)

(***************************************************************************)
(* C6.  In ceil mode, for any kernel and stride >= 1, Forward completes    *)
(* and the window it reads for an output cell is the kernel's rectangle    *)
(* anchored at (i * strideWidth, j * strideHeight) clipped to the input:   *)
(* inside the input, not empty, and smaller than the kernel only where     *)
(* the rectangle crosses the input's boundary.                             *)
(***************************************************************************)
C6_CeilWindowClipped ==
  (op \in {"ForwardTraining", "ForwardInference"} /\ ~floor
     /\ ValidConfiguration) =>
    /\ result = "ok"
    /\ \A n \in DOMAIN output.mem :
         /\ ReadRows(n) # {}
         /\ ReadCols(n) # {}
         /\ ReadRows(n) = KernelRows(n) \cap (0 .. (inputDimensions[1] - 1))
         /\ ReadCols(n) = KernelCols(n) \cap (0 .. (inputDimensions[2] - 1))

(***************************************************************************)
(* C7.  ComputeOutputDimensions on a kernel or stride of 0, or in floor    *)
(* mode on an input smaller than the kernel along an axis, ends with a     *)
(* ConfigurationError and leaves the layer without output dimensions; a    *)
(* layer that has output dimensions has them >= 1, and Forward runs only   *)
(* on such a layer.                                                        *)
(***************************************************************************)
C7_ConfigurationError ==
  /\ (/\ op = "ComputeOutputDimensions"
      /\ \/ ~ValidConfiguration
         \/ (floor /\ (\/ kernelWidth > inputDimensions[1]
                       \/ kernelHeight > inputDimensions[2])))
       => (result = "ConfigurationError" /\ ~Configured)
  /\ Configured => (outputDimensions[1] >= 1 /\ outputDimensions[2] >= 1)
  /\ (op = "ForwardTraining") => Configured

\* a floor-mode layer with kernel and stride >= 1 was declared an input
\* narrower than its kernel
C7_Witness ==
  /\ op = "ComputeOutputDimensions"
  /\ result = "ConfigurationError"
  /\ ValidConfiguration
  /\ floor
  /\ kernelWidth > inputDimensions[1]

(***************************************************************************)
(* C8.  Backward with an upstream gradient whose element count disagrees   *)
(* with the output's, or before any Forward has established an index map,  *)
(* ends with an error.                                                     *)
(***************************************************************************)
C8_MismatchSurfaced ==
  (/\ op = "Backward"
   /\ \/ n_elem(gy) # outputDimensions[1] * outputDimensions[2] * channels
      \/ ~ready)
    => result # "ok"

(***************************************************************************)
(* C9.  Every Forward runs on output dimensions and a window offset that   *)
(* are the ones computed from the kernel, stride and rounding mode it      *)
(* runs with.                                                              *)
(***************************************************************************)
C9_DimensionsOfConfiguration ==
  (op = "ForwardTraining") =>
    /\ outputDimensions[1]
         = ComputeOutputSize(inputDimensions[1], kernelWidth, strideWidth,
                             floor)
    /\ outputDimensions[2]
         = ComputeOutputSize(inputDimensions[2], kernelHeight, strideHeight,
                             floor)
    /\ offset = OffsetOf(floor)

\* the gradient the index map and the upstream gradient define at input
\* location p: the sum of the gradients of the cells pointing at p
GradientAt(indices, err, p) ==
  SumOver({ i \in DOMAIN indices.mem : indices.mem[i] = p }, err.mem)

\* entry n of the index map is a position of cell n's window in the input
\* `in` that holds the window's maximum
EntryOfInput(indices, in, n) ==
  \E r \in ReadRows(n), c \in ReadCols(n) :
    /\ indices.mem[n] = Flat(r, c, CellSlice(n))
    /\ \A r2 \in ReadRows(n), c2 \in ReadCols(n) :
         in.mem[Flat(r2, c2, CellSlice(n))] <= in.mem[Flat(r, c, CellSlice(n))]

(***************************************************************************)
(* C10.  A completed Forward with index tracking leaves an index map with  *)
(* one entry per output cell, each a position of that cell's window in     *)
(* this Forward's input; Backward changes neither the index map nor the    *)
(* configuration, and a completed Backward leaves at every input location  *)
(* the sum of the upstream gradients of the cells pointing at it, whatever *)
(* the gradient buffer held.                                               *)
(***************************************************************************)
C10_IndexMapFrame ==
  [][ /\ (op' = "ForwardTraining" /\ result' = "ok") =>
           /\ DOMAIN poolingIndices'.mem
                = 0 .. (outputDimensions[1] * outputDimensions[2] * channels
                          - 1)
           /\ \A n \in DOMAIN poolingIndices'.mem :
                EntryOfInput(poolingIndices', input', n)
      /\ (op' = "Backward") =>
           /\ poolingIndices' = poolingIndices
           /\ config' = config
           /\ (result' = "ok") =>
                \A p \in DOMAIN g'.mem :
                  g'.mem[p] = GradientAt(poolingIndices, gy', p)
    ]_vars

\* Backward ran on an index map of several cells and left gradient at some
\* input locations and none at others
C10_Witness ==
  /\ BackwardOnForward
  /\ result = "ok"
  /\ n_elem(poolingIndices) >= 2
  /\ \E p \in DOMAIN g.mem : g.mem[p] # 0
  /\ \E p \in DOMAIN g.mem : g.mem[p] = 0

=============================================================================
